---- MODULE Spec2Model ----
(***************************************************************************)
(* A model of src/main.py, the Petfinder data collector: token caching,    *)
(* the retrying GET, the two paginated fetches, record normalisation, the  *)
(* cross-linker, the snapshot writer and the SQLite importer.              *)
(*                                                                         *)
(* The program is one sequential script.  Each component is explored by a  *)
(* specification of its own (FetchSpec, TokenSpec, RunSpec, ImportSpec,    *)
(* LinkSpec); the variables of the other components stay at rest.          *)
(***************************************************************************)
EXTENDS Integers, Sequences, FiniteSets, TLC

VARIABLES
    \* ---- fetch_animals / fetch_organizations_by_location / safe_get ----
    fstage,      \* which fetch main() is at: "animals", "organizations", "done"
    fpc,         \* position inside the fetch and safe_get
    limit,       \* parameter limit (page size) of the running fetch
    pages,       \* parameter pages (max pages) of the running fetch
    page,        \* loop variable of `for page in range(1, pages + 1)`
    attempt,     \* loop variable of `for attempt in range(retries)`
    data,        \* what safe_get returned to the fetch
    all_items,   \* all_animals / all_orgs
    raw,         \* animals_raw / orgs_raw: what the fetch before returned, until
                 \* main() has normalized and saved it (it is not read again)
    \* history of the running fetch (not read by the program)
    reqPages,    \* page numbers of the GETs sent, consecutive repeats merged
    got,         \* got[k]: the records the k-th safe_get call returned (none: << >>)
    nsent,       \* GETs sent by the current safe_get call
    nsleeps,     \* sleeps done by the current safe_get call
    slept,       \* seconds of the last sleep of the current safe_get call
    firstOK,     \* the first success response of the current call, if any
    lastResp,    \* the last response of the current call
    permfail,    \* page whose GET raised HTTPError in the running fetch, or 0
    \* ---- get_auth_token ----
    tpc,         \* position: "idle", "check", "post", "returned", "raised"
    now,         \* time.time(), in seconds
    cache,       \* the token cache file token_cache.json
    tret,        \* the value get_auth_token returned
    issued,      \* how many tokens the auth endpoint has issued
    \* history of the running call (not read by the program)
    posts,       \* POSTs sent by the running call
    cache0,      \* the cache file when the call began
    checked_at,  \* the time at which line 36 read the clock
    issued_at,   \* the time at which line 50 read the clock
    \* ---- match_organizations ----
    lpc,               \* position: "call", "loop", "done" ("rest": not running)
    animals_clean,     \* main()'s list animals_clean, the argument `animals`
    orgs_clean,        \* main()'s list orgs_clean, the argument `orgs`
    org_lookup,        \* the dict org_lookup
    li,                \* index of the animal the loop of line 236 is at
    animals_with_orgs, \* main()'s animals_with_orgs, the value returned
    \* history of the call (not read by the program)
    animals_before,    \* the records of animals_clean when the call began
    orgs_before,       \* the records of orgs_clean when the call began
    \* ---- main(): the snapshot files and the paths of the import ----
    rpc,         \* position of the run in main() ("off": no run in progress)
    run,         \* number of the run of the script
    date,        \* the calendar date, in days
    today_str,   \* the date the module read at line 24, when the run began
    files,       \* data_snapshots/: files[<<prefix, d>>] is the run that
                 \* wrote {prefix}_{d}.json last, 0 when there is no such file
    wrote,       \* wrote[prefix]: path save_to_file wrote in this run (history)
    import_paths,\* the paths main() passed to import_to_db (history)
    import_read, \* import_read[k]: the run whose file import_to_db loaded
    \* ---- clean_animal_data / clean_organization_data / import_to_db ----
    ipc,         \* position in import_to_db ("idle", "check", "rows", "done",
                 \* "raised": an exception left import_to_db)
    raw_animals, \* the raw animal records the fetch returned
    raw_orgs,    \* the raw organization records the fetch returned
    files_exist, \* whether the two snapshot files of the import exist
    animal_data, \* the content of the animals snapshot file
    org_data,    \* the content of the organizations snapshot file
    db,          \* the committed content of the SQLite file
    tx,          \* the content as the open connection sees it
    oi,          \* index of the organization the loop of line 324 is at
    ai,          \* index of the animal the loop of line 352 is at
    nimports,    \* calls of import_to_db on these files so far
    \* history (not read by the program)
    ncommits,    \* conn.commit() calls of the running call
    db0,         \* the committed content when the running call began
    db_first     \* the committed content after the first completed call

fvars == <<fstage, fpc, limit, pages, page, attempt, data, all_items,
           raw, reqPages, got, nsent, nsleeps, slept, firstOK, lastResp,
           permfail>>

tvars == <<tpc, now, cache, tret, issued, posts, cache0, checked_at, issued_at>>

lvars == <<lpc, animals_clean, orgs_clean, org_lookup, li, animals_with_orgs,
           animals_before, orgs_before>>

rvars == <<rpc, run, date, today_str, files, wrote, import_paths, import_read>>

ivars == <<ipc, raw_animals, raw_orgs, files_exist, animal_data, org_data, db,
           tx, oi, ai, nimports, ncommits, db0, db_first>>

vars == <<fvars, tvars, lvars, rvars, ivars>>

(* What the actions of one component leave alone. *)
othersOfFetch == <<tvars, lvars, rvars, ivars>>
othersOfToken == <<fvars, lvars, rvars, ivars>>
othersOfLink == <<fvars, tvars, rvars, ivars>>
othersOfRun == <<fvars, tvars, lvars, ivars>>
othersOfImport == <<fvars, tvars, lvars, rvars>>

----------------------------------------------------------------------------
(* Bounds of the exploration *)
MaxLimit == 2
MaxPages == 3
MaxTime == 5
MaxTokens == 2
MaxAnimals == 2
MaxOrgs == 2
MaxDate == 2
MaxRuns == 2
MaxAnimalRows == 2
MaxOrgRows == 1
MaxImports == 2

(* safe_get(url, headers, params, retries=5) *)
Retries == 5
(* int(response.headers.get("Retry-After", 10)) *)
DefaultRetryAfter == 10
(* time.sleep(5) on 502/503/504 *)
ServerErrorSleep == 5

----------------------------------------------------------------------------
(* JSON values handed around by the fetch layer.  None is Python's None;   *)
(* a dict body carries the number of its keys and the list under the       *)
(* resource key ("animals" / "organizations", [] when the key is absent).  *)
None == [kind |-> "None", nkeys |-> 0, items |-> << >>]
Dict(n, xs) == [kind |-> "dict", nkeys |-> n, items |-> xs]

(* A response body that is not JSON (an HTML error page, an empty body). *)
NotJson == [kind |-> "not_json", nkeys |-> 0, items |-> << >>]

(* `not data` *)
Falsy(d) == d.kind = "None" \/ d.nkeys = 0

(* The n records of page p of a resource. *)
PageRecords(res, p, n) == [i \in 1..n |-> <<res, p, i>>]

(* The Retry-After header of a response: absent, the decimal digits of an *)
(* integer, or any other text (an HTTP-date, "1.5").                      *)
NoHeader == [kind |-> "absent", seconds |-> 0]
IntegerHeader(n) == [kind |-> "integer", seconds |-> n]
TextHeader == [kind |-> "text", seconds |-> 0]

RetryAfterHeaders ==
    {NoHeader, TextHeader} \cup {IntegerHeader(n) : n \in {-1, 0, 2}}

Statuses == {200, 404, 429, 500, 502, 503, 504}

(* The record counts explored for a page when the page size is lim: none, *)
(* one fewer than a full page, a full page, one more.                     *)
Counts(lim) == {0, lim - 1, lim, lim + 1}

(* The responses the server may give to the GET for page p. *)
Responses(res, p, lim) ==
    [status : {404, 500, 502, 503, 504}, retry_after : {NoHeader}, body : {None}]
    \cup [status : {429}, retry_after : RetryAfterHeaders, body : {None}]
    \cup [status : {200}, retry_after : {NoHeader},
          body : {NotJson, Dict(0, << >>)}
                 \cup {Dict(1, PageRecords(res, p, n)) : n \in Counts(lim)}]

NoResponse == [status |-> 0, retry_after |-> NoHeader, body |-> None]

(* response.raise_for_status() raises for 4xx and 5xx *)
IsError(s) == s >= 400 /\ s < 600

RECURSIVE Flatten(_)
Flatten(ss) == IF ss = << >> THEN << >> ELSE Head(ss) \o Flatten(Tail(ss))

----------------------------------------------------------------------------
(* safe_get, src/main.py lines 59-77 *)

(* `for attempt in range(retries)` has another iteration *)
BudgetLeft(a) == a < Retries

(* `response.status_code in [502, 503, 504]` *)
ServerError(s) == s \in {502, 503, 504}

(* line 64: int(response.headers.get("Retry-After", 10)) raises ValueError *)
(* on a text that is not an integer                                        *)
IntValueError(h) == h.kind = "text"

(* line 64, when int() returns *)
WaitTime(r) ==
    IF r.retry_after = NoHeader THEN DefaultRetryAfter ELSE r.retry_after.seconds

(* line 66: time.sleep raises ValueError on a negative length *)
SleepValueError(t) == t < 0

(* lines 64-66 raise instead of sleeping *)
RetryAfterRaises(r) ==
    IntValueError(r.retry_after) \/ SleepValueError(WaitTime(r))

(* line 73: response.json() raises a decoding error, which is not an       *)
(* HTTPError                                                               *)
JsonRaises(body) == body.kind = "not_json"

(* History kept for every GET that safe_get sends for the current page. *)
Sent(r) ==
    /\ nsent' = nsent + 1
    /\ lastResp' = r
    /\ reqPages' = IF reqPages # << >> /\ reqPages[Len(reqPages)] = page
                   THEN reqPages ELSE Append(reqPages, page)
    /\ firstOK' = IF ~IsError(r.status) /\ ~firstOK.seen
                  THEN [seen |-> TRUE, body |-> r.body] ELSE firstOK

(* line 60, the loop goes on: the next statement is requests.get *)
safe_get_attempt ==
    /\ fpc = "for_attempt"
    /\ BudgetLeft(attempt)
    /\ fpc' = "request"
    /\ UNCHANGED <<fstage, limit, pages, page, attempt, data, all_items, raw,
                   reqPages, got, nsent, nsleeps, slept, firstOK, lastResp,
                   permfail>>
    /\ UNCHANGED othersOfFetch

(* line 60 with the range used up, then line 77: return None *)
safe_get_exhausted ==
    /\ fpc = "for_attempt"
    /\ ~BudgetLeft(attempt)
    /\ data' = None
    /\ fpc' = "after_get"
    /\ got' = Append(got, << >>)
    /\ UNCHANGED <<fstage, limit, pages, page, attempt, all_items, raw, reqPages, nsent, nsleeps, slept, firstOK, lastResp, permfail>>
    /\ UNCHANGED othersOfFetch

(* lines 62-66: the GET is answered 429 and Retry-After is not a number of *)
(* seconds; the ValueError is not caught by `except HTTPError`: it leaves  *)
(* safe_get and the fetch, and main() ends                                 *)
safe_get_rate_limited_raises ==
    /\ fpc = "request"
    /\ \E r \in Responses(fstage, page, limit) :
          /\ r.status = 429
          /\ RetryAfterRaises(r)
          /\ Sent(r)
    /\ fpc' = "raised"
    /\ UNCHANGED <<fstage, limit, pages, page, attempt, data, all_items, raw, got,
                   nsleeps, slept, permfail>>
    /\ UNCHANGED othersOfFetch

(* lines 62-67: the GET is answered 429; sleep Retry-After seconds; continue *)
safe_get_rate_limited ==
    /\ fpc = "request"
    /\ \E r \in Responses(fstage, page, limit) :
          /\ r.status = 429
          /\ ~RetryAfterRaises(r)
          /\ Sent(r)
          /\ slept' = WaitTime(r)
    /\ nsleeps' = nsleeps + 1
    /\ attempt' = attempt + 1
    /\ fpc' = "for_attempt"
    /\ UNCHANGED <<fstage, limit, pages, page, data, all_items, raw, got, permfail>>
    /\ UNCHANGED othersOfFetch

(* lines 62, 68-71: the GET is answered 502/503/504; sleep 5 seconds; continue *)
safe_get_server_error ==
    /\ fpc = "request"
    /\ \E r \in Responses(fstage, page, limit) :
          /\ r.status # 429
          /\ ServerError(r.status)
          /\ Sent(r)
    /\ slept' = ServerErrorSleep
    /\ nsleeps' = nsleeps + 1
    /\ attempt' = attempt + 1
    /\ fpc' = "for_attempt"
    /\ UNCHANGED <<fstage, limit, pages, page, data, all_items, raw, got, permfail>>
    /\ UNCHANGED othersOfFetch

(* lines 62, 72: any other 4xx/5xx status; raise_for_status raises HTTPError *)
safe_get_raise ==
    /\ fpc = "request"
    /\ \E r \in Responses(fstage, page, limit) :
          /\ r.status # 429
          /\ ~ServerError(r.status)
          /\ IsError(r.status)
          /\ Sent(r)
    /\ permfail' = page
    /\ fpc' = "except"
    /\ UNCHANGED <<fstage, limit, pages, page, attempt, data, all_items, raw, got,
                   nsleeps, slept>>
    /\ UNCHANGED othersOfFetch

(* An except clause that goes on with the loop instead of leaving it. *)
safe_get_except_continue ==
    /\ fpc = "except"
    /\ attempt' = attempt + 1
    /\ fpc' = "for_attempt"
    /\ UNCHANGED <<fstage, limit, pages, page, data, all_items, raw, reqPages,
                   got, nsent, nsleeps, slept, firstOK, lastResp, permfail>>
    /\ UNCHANGED othersOfFetch

(* lines 74-77: except HTTPError: print, break, return None *)
safe_get_except ==
    /\ fpc = "except"
    /\ data' = None
    /\ fpc' = "after_get"
    /\ got' = Append(got, << >>)
    /\ UNCHANGED <<fstage, limit, pages, page, attempt, all_items, raw, reqPages, nsent, nsleeps, slept, firstOK, lastResp, permfail>>
    /\ UNCHANGED othersOfFetch

(* lines 62, 72-73: a success status with a body that is not JSON; the    *)
(* decoding error is not caught: it leaves safe_get and the fetch, and    *)
(* main() ends                                                            *)
safe_get_json_raises ==
    /\ fpc = "request"
    /\ \E r \in Responses(fstage, page, limit) :
          /\ r.status # 429
          /\ ~ServerError(r.status)
          /\ ~IsError(r.status)
          /\ JsonRaises(r.body)
          /\ Sent(r)
    /\ fpc' = "raised"
    /\ UNCHANGED <<fstage, limit, pages, page, attempt, data, all_items, raw, got,
                   nsleeps, slept, permfail>>
    /\ UNCHANGED othersOfFetch

(* lines 62, 72-73: a success status; return response.json() *)
safe_get_return_json ==
    /\ fpc = "request"
    /\ \E r \in Responses(fstage, page, limit) :
          /\ r.status # 429
          /\ ~ServerError(r.status)
          /\ ~IsError(r.status)
          /\ ~JsonRaises(r.body)
          /\ Sent(r)
          /\ data' = r.body
    /\ fpc' = "after_get"
    /\ got' = Append(got, data'.items)
    /\ UNCHANGED <<fstage, limit, pages, page, attempt, all_items, raw, nsleeps, slept, permfail>>
    /\ UNCHANGED othersOfFetch

----------------------------------------------------------------------------
(* fetch_animals, lines 81-112, and fetch_organizations_by_location,       *)
(* lines 164-195: the same loop over another endpoint and key.             *)

(* A short-page test that also stops on a full page. *)
ShortPage_OrEqual(items, lim) == Len(items) <= lim

(* `len(animals) < limit` *)
ShortPage(items, lim) == Len(items) < lim

(* `for page in range(1, pages + 1)` has another iteration *)
MorePages(p, n) == p <= n

(* The frame of a safe_get call is gone once the fetch has used its result; *)
(* so is the history of that call.                                         *)
CallEnds ==
    /\ attempt' = 0
    /\ nsent' = 0
    /\ nsleeps' = 0
    /\ slept' = 0
    /\ firstOK' = [seen |-> FALSE, body |-> None]
    /\ lastResp' = NoResponse

(* main() lines 429 and 433: the call; lines 82-83 / 166-167.  Before the *)
(* second call, lines 430-431 have normalized and saved animals_raw.      *)
main_call_fetch ==
    /\ fpc = "main"
    /\ fstage \in {"animals", "organizations"}
    /\ \E l \in 1..MaxLimit, n \in 1..MaxPages : limit' = l /\ pages' = n
    /\ raw' = << >>
    /\ all_items' = << >>
    /\ page' = 1
    /\ reqPages' = << >>
    /\ got' = << >>
    /\ permfail' = 0
    /\ fpc' = "for_page"
    /\ UNCHANGED <<fstage, attempt, data, nsent, nsleeps, slept, firstOK,
                   lastResp>>
    /\ UNCHANGED othersOfFetch

(* lines 85-94 / 169-177: the next page; safe_get is called *)
fetch_next_page ==
    /\ fpc = "for_page"
    /\ MorePages(page, pages)
    /\ attempt' = 0
    /\ nsent' = 0
    /\ nsleeps' = 0
    /\ slept' = 0
    /\ firstOK' = [seen |-> FALSE, body |-> None]
    /\ lastResp' = NoResponse
    /\ fpc' = "for_attempt"
    /\ UNCHANGED <<fstage, limit, pages, page, data, all_items, raw, reqPages,
                   got, permfail>>
    /\ UNCHANGED othersOfFetch

(* line 85 / 169 with the range used up *)
fetch_pages_exhausted ==
    /\ fpc = "for_page"
    /\ ~MorePages(page, pages)
    /\ fpc' = "return"
    /\ UNCHANGED <<fstage, limit, pages, page, attempt, data, all_items, raw,
                   reqPages, got, nsent, nsleeps, slept, firstOK, lastResp,
                   permfail>>
    /\ UNCHANGED othersOfFetch

(* lines 95-96 / 178-179: `if not data: break` *)
fetch_break_no_data ==
    /\ fpc = "after_get"
    /\ Falsy(data)
    /\ fpc' = "return"
    /\ CallEnds
    /\ UNCHANGED <<got, fstage, limit, pages, page, data, all_items, raw, reqPages, permfail>>
    /\ UNCHANGED othersOfFetch

(* lines 98-101 / 181-184: `if not animals: break` *)
fetch_break_empty ==
    /\ fpc = "after_get"
    /\ ~Falsy(data)
    /\ data.items = << >>
    /\ fpc' = "return"
    /\ CallEnds
    /\ UNCHANGED <<got, fstage, limit, pages, page, data, all_items, raw, reqPages, permfail>>
    /\ UNCHANGED othersOfFetch

(* lines 103-107 / 186-190: extend, then break on a short page *)
fetch_extend_short ==
    /\ fpc = "after_get"
    /\ ~Falsy(data)
    /\ data.items # << >>
    /\ all_items' = all_items \o data.items
    /\ ShortPage(data.items, limit)
    /\ fpc' = "return"
    /\ CallEnds
    /\ UNCHANGED <<got, fstage, limit, pages, page, data, raw, reqPages, permfail>>
    /\ UNCHANGED othersOfFetch

(* lines 103-109 / 186-192: extend, sleep 0.2 s, go on with the next page *)
fetch_extend_full ==
    /\ fpc = "after_get"
    /\ ~Falsy(data)
    /\ data.items # << >>
    /\ all_items' = all_items \o data.items
    /\ ~ShortPage(data.items, limit)
    /\ page' = page + 1
    /\ fpc' = "for_page"
    /\ CallEnds
    /\ UNCHANGED <<got, fstage, limit, pages, data, raw, reqPages, permfail>>
    /\ UNCHANGED othersOfFetch

(* lines 111-112 / 194-195: return; main() goes on to its next stage *)
fetch_return ==
    /\ fpc = "return"
    /\ raw' = all_items
    /\ fstage' = IF fstage = "animals" THEN "organizations" ELSE "done"
    /\ fpc' = "main"
    /\ data' = None
    /\ UNCHANGED <<limit, pages, page, attempt, all_items,
                   reqPages, got, nsent, nsleeps, slept, firstOK, lastResp,
                   permfail>>
    /\ UNCHANGED othersOfFetch

FetchStart ==
    /\ fstage = "animals"
    /\ fpc = "main"
    /\ limit = 1
    /\ pages = 1
    /\ page = 1
    /\ attempt = 0
    /\ data = None
    /\ all_items = << >>
    /\ raw = << >>
    /\ reqPages = << >>
    /\ got = << >>
    /\ nsent = 0
    /\ nsleeps = 0
    /\ slept = 0
    /\ firstOK = [seen |-> FALSE, body |-> None]
    /\ lastResp = NoResponse
    /\ permfail = 0

FetchNext ==
    \/ main_call_fetch
    \/ fetch_next_page
    \/ fetch_pages_exhausted
    \/ safe_get_attempt
    \/ safe_get_exhausted
    \/ safe_get_rate_limited_raises
    \/ safe_get_rate_limited
    \/ safe_get_server_error
    \/ safe_get_raise
    \/ safe_get_except
    \/ safe_get_json_raises
    \/ safe_get_return_json
    \/ fetch_break_no_data
    \/ fetch_break_empty
    \/ fetch_extend_short
    \/ fetch_extend_full
    \/ fetch_return


------------------------------------------------------------------

----------------------------------------------------------------------------
(* get_auth_token, src/main.py lines 32-55 *)

(* token_data["expires_in"] of the auth endpoint's answers *)
ExpiresIn == {9, 11, 12}

(* the safety margin of line 50 *)
ExpiryMargin == 10

NoFile == [exists |-> FALSE, access_token |-> 0, expires_in |-> 0, expires_at |-> 0]

(* line 33 and line 36: the file exists and time.time() < cached["expires_at"] *)
CacheValid(t, c) == c.exists /\ t < c.expires_at

(* An expiry computed without the safety margin. *)
ExpiresAt_NoMargin(t, ttl) == t + ttl

(* line 50: time.time() + token_data["expires_in"] - 10 *)
ExpiresAt(t, ttl) == t + ttl - ExpiryMargin

(* The clock moves on between any two statements. *)
Tick ==
    /\ now < MaxTime
    /\ now' = now + 1
    /\ UNCHANGED <<tpc, cache, tret, issued, posts, cache0, checked_at, issued_at>>
    /\ UNCHANGED othersOfToken

(* main() line 427, of this run or of a later run of the script *)
token_call ==
    /\ tpc \in {"idle", "returned", "raised"}
    /\ tpc' = "check"
    /\ posts' = 0
    /\ cache0' = cache
    /\ UNCHANGED <<now, cache, tret, issued, checked_at, issued_at>>
    /\ UNCHANGED othersOfToken

(* lines 33-38: a cached token that has not expired is returned *)
token_use_cached ==
    /\ tpc = "check"
    /\ CacheValid(now, cache)
    /\ checked_at' = now
    /\ tret' = cache.access_token
    /\ tpc' = "returned"
    /\ UNCHANGED <<now, cache, issued, posts, cache0, issued_at>>
    /\ UNCHANGED othersOfToken

(* lines 33-36 fall through; lines 40-47: the POST is sent *)
token_request ==
    /\ tpc = "check"
    /\ ~CacheValid(now, cache)
    /\ issued < MaxTokens
    /\ checked_at' = now
    /\ posts' = posts + 1
    /\ tpc' = "post"
    /\ UNCHANGED <<now, cache, tret, issued, cache0, issued_at>>
    /\ UNCHANGED othersOfToken

(* lines 48-55: a success answer; the credential is cached and returned *)
token_post_ok ==
    /\ tpc = "post"
    /\ \E ttl \in ExpiresIn :
          cache' = [exists |-> TRUE, access_token |-> issued + 1,
                    expires_in |-> ttl, expires_at |-> ExpiresAt(now, ttl)]
    /\ issued' = issued + 1
    /\ issued_at' = now
    /\ tret' = cache'.access_token
    /\ tpc' = "returned"
    /\ UNCHANGED <<now, posts, cache0, checked_at>>
    /\ UNCHANGED othersOfToken

(* line 48: an error status; raise_for_status raises and the run ends *)
token_post_fail ==
    /\ tpc = "post"
    /\ tpc' = "raised"
    /\ UNCHANGED <<now, cache, tret, issued, posts, cache0, checked_at, issued_at>>
    /\ UNCHANGED othersOfToken

TokenStart ==
    /\ tpc = "idle"
    /\ now = 0
    /\ cache \in {NoFile,
                  [exists |-> TRUE, access_token |-> 0, expires_in |-> 12,
                   expires_at |-> 2]}
    /\ tret = 0
    /\ issued = 0
    /\ posts = 0
    /\ cache0 = NoFile
    /\ checked_at = 0
    /\ issued_at = 0

TokenNext ==
    \/ Tick
    \/ token_call
    \/ token_use_cached
    \/ token_request
    \/ token_post_ok
    \/ token_post_fail

--------------------------------------------------------------------------------------------------------------------------------------------
(* match_organizations, src/main.py lines 234-249 *)

(* Python's None / JSON null among string values *)
Nil == "<None>"

(* Identifier values of the records: null, the empty string, two ids. *)
OrgIdValues == {Nil, "", "ORG1", "ORG2"}

(* The organization sub-record of an animal that has none. *)
NoOrganization == [name |-> 0]

(* A normalized animal, as clean_animal_data builds it (lines 125-159):    *)
(* it has no "organization" key.  The fields that play no part in the link *)
(* are left out.                                                           *)
CleanAnimal(i, oid) ==
    [id |-> i, organization_id |-> oid,
     has_organization |-> FALSE, organization |-> NoOrganization]

(* A normalized organization (lines 207-229); its name tells the records   *)
(* of one list apart.                                                      *)
CleanOrg(i, oid) == [id |-> oid, name |-> i]

(* The lists of length n of normalized records. *)
AnimalLists(n) ==
    {[i \in 1..n |-> CleanAnimal(i, f[i])] : f \in [1..n -> OrgIdValues]}

OrgLists(n) ==
    {[i \in 1..n |-> CleanOrg(i, f[i])] : f \in [1..n -> OrgIdValues]}

(* `if org_id`: None and "" are falsy (so are 0, False and empty            *)
(* containers, which are not among OrgIdValues).                           *)
Truthy(v) == v # Nil /\ v # ""

Largest(S) == CHOOSE x \in S : \A y \in S : y <= x
Smallest(S) == CHOOSE x \in S : \A y \in S : x <= y

(* A lookup in which the first organization with an id wins. *)
BuildLookup_FirstWins(orgs) ==
    [k \in {orgs[j].id : j \in 1..Len(orgs)} |->
        orgs[Smallest({j \in 1..Len(orgs) : orgs[j].id = k})]]

(* line 235: {org["id"]: org for org in orgs}; a later org with the same   *)
(* id replaces the earlier one.                                            *)
BuildLookup(orgs) ==
    [k \in {orgs[j].id : j \in 1..Len(orgs)} |->
        orgs[Largest({j \in 1..Len(orgs) : orgs[j].id = k})]]

(* lines 240-248: the sub-record built from org *)
SubRecord(org) == [name |-> org.name]

(* main() line 437: the call; line 235 *)
link_build_lookup ==
    /\ lpc = "call"
    /\ org_lookup' = BuildLookup(orgs_clean)
    /\ li' = 1
    /\ lpc' = "loop"
    /\ UNCHANGED <<animals_clean, orgs_clean, animals_with_orgs, animals_before,
                   orgs_before>>
    /\ UNCHANGED othersOfLink

(* lines 236-248: the animal's organization is found; a["organization"] is *)
(* assigned on the record of the list that was passed in                   *)
link_attach ==
    /\ lpc = "loop"
    /\ li <= Len(animals_clean)
    /\ LET org_id == animals_clean[li].organization_id IN
          /\ Truthy(org_id)
          /\ org_id \in DOMAIN org_lookup
          /\ animals_clean' =
                [animals_clean EXCEPT
                    ![li].has_organization = TRUE,
                    ![li].organization = SubRecord(org_lookup[org_id])]
    /\ li' = li + 1
    /\ UNCHANGED <<lpc, orgs_clean, org_lookup, animals_with_orgs, animals_before,
                   orgs_before>>
    /\ UNCHANGED othersOfLink

(* lines 236-238: the condition of line 238 is false *)
link_skip ==
    /\ lpc = "loop"
    /\ li <= Len(animals_clean)
    /\ LET org_id == animals_clean[li].organization_id IN
          ~(Truthy(org_id) /\ org_id \in DOMAIN org_lookup)
    /\ li' = li + 1
    /\ UNCHANGED <<lpc, animals_clean, orgs_clean, org_lookup, animals_with_orgs,
                   animals_before, orgs_before>>
    /\ UNCHANGED othersOfLink

(* line 249: `return animals`, the list that was passed in *)
link_return ==
    /\ lpc = "loop"
    /\ li > Len(animals_clean)
    /\ animals_with_orgs' = animals_clean
    /\ lpc' = "done"
    /\ UNCHANGED <<animals_clean, orgs_clean, org_lookup, li, animals_before,
                   orgs_before>>
    /\ UNCHANGED othersOfLink

LinkStart ==
    /\ lpc = "call"
    /\ animals_clean \in UNION {AnimalLists(n) : n \in 0..MaxAnimals}
    /\ orgs_clean \in UNION {OrgLists(n) : n \in 0..MaxOrgs}
    /\ org_lookup = [k \in {} |-> k]
    /\ li = 0
    /\ animals_with_orgs = << >>
    /\ animals_before = animals_clean
    /\ orgs_before = orgs_clean

LinkNext ==
    \/ link_build_lookup
    \/ link_attach
    \/ link_skip
    \/ link_return

----------------------------------------------------------------------------
(* main(), lines 426-440, with the module-level paths of lines 24-27 and   *)
(* save_to_file, lines 253-258.  The script is run from its own directory, *)
(* so that data_snapshots/ of line 255 is base_dir / data_snapshots of     *)
(* lines 26-27.                                                            *)

Prefixes == {"data", "organizations", "data_with_orgs"}

(* {name_prefix}_{date_str}.json in data_snapshots/ *)
SnapshotPath(prefix, d) == <<prefix, d>>

NoPath == <<"", 0>>

(* lines 254-257: the file is named by the date at the time of the call *)
save_to_file(prefix) ==
    /\ files' = [files EXCEPT ![SnapshotPath(prefix, date)] = run]
    /\ wrote' = [wrote EXCEPT ![prefix] = SnapshotPath(prefix, date)]

(* lines 26-27: the paths are built from today_str, read at line 24 *)
animal_file == SnapshotPath("data", today_str)
org_file == SnapshotPath("organizations", today_str)

(* Midnight passes. *)
Midnight ==
    /\ date < MaxDate
    /\ date' = date + 1
    /\ UNCHANGED <<rpc, run, today_str, files, wrote, import_paths, import_read>>
    /\ UNCHANGED othersOfRun

(* The script is started: lines 12-28 run, then main() is entered. *)
run_start ==
    /\ rpc \in {"off", "done", "failed", "no_token", "fetch_raised"}
    /\ run < MaxRuns
    /\ run' = run + 1
    /\ today_str' = date
    /\ wrote' = [p \in Prefixes |-> NoPath]
    /\ import_paths' = <<NoPath, NoPath>>
    /\ import_read' = [data |-> 0, organizations |-> 0]
    /\ rpc' = "animals"
    /\ UNCHANGED <<date, files>>
    /\ UNCHANGED othersOfRun

(* line 427: get_auth_token raises (raise_for_status, line 48, on a token  *)
(* request that was refused); main() ends before anything is written     *)
run_token_raises ==
    /\ rpc = "animals"
    /\ rpc' = "no_token"
    /\ UNCHANGED <<run, date, today_str, files, wrote, import_paths, import_read>>
    /\ UNCHANGED othersOfRun

(* lines 429 and 433: an exception leaves safe_get (lines 64-66, 73) and  *)
(* the fetch that called it; main() ends before that stage's file is      *)
(* written                                                                *)
run_fetch_raises ==
    /\ rpc \in {"animals", "organizations"}
    /\ rpc' = "fetch_raised"
    /\ UNCHANGED <<run, date, today_str, files, wrote, import_paths, import_read>>
    /\ UNCHANGED othersOfRun

(* lines 427-431: a token is returned, then fetch_animals, clean,         *)
(* save_to_file(.., "data")                                               *)
run_save_animals ==
    /\ rpc = "animals"
    /\ save_to_file("data")
    /\ rpc' = "organizations"
    /\ UNCHANGED <<run, date, today_str, import_paths, import_read>>
    /\ UNCHANGED othersOfRun

(* lines 433-435: fetch, clean, save_to_file(.., "organizations") *)
run_save_orgs ==
    /\ rpc = "organizations"
    /\ save_to_file("organizations")
    /\ rpc' = "link"
    /\ UNCHANGED <<run, date, today_str, import_paths, import_read>>
    /\ UNCHANGED othersOfRun

(* lines 437-438: match_organizations, save_to_file(.., "data_with_orgs") *)
run_save_with_orgs ==
    /\ rpc = "link"
    /\ save_to_file("data_with_orgs")
    /\ rpc' = "import"
    /\ UNCHANGED <<run, date, today_str, import_paths, import_read>>
    /\ UNCHANGED othersOfRun

(* line 440 and lines 263-271: both files exist and are loaded *)
run_import ==
    /\ rpc = "import"
    /\ files[animal_file] # 0 /\ files[org_file] # 0
    /\ import_paths' = <<animal_file, org_file>>
    /\ import_read' = [data |-> files[animal_file],
                       organizations |-> files[org_file]]
    /\ rpc' = "done"
    /\ UNCHANGED <<run, date, today_str, files, wrote>>
    /\ UNCHANGED othersOfRun

(* line 440 and lines 263-264: a file is missing; FileNotFoundError *)
run_import_missing ==
    /\ rpc = "import"
    /\ files[animal_file] = 0 \/ files[org_file] = 0
    /\ import_paths' = <<animal_file, org_file>>
    /\ rpc' = "failed"
    /\ UNCHANGED <<run, date, today_str, files, wrote, import_read>>
    /\ UNCHANGED othersOfRun

RunStart ==
    /\ rpc = "off"
    /\ run = 0
    /\ date = 0
    /\ today_str = 0
    /\ files = [f \in Prefixes \X (0..MaxDate) |-> 0]
    /\ wrote = [p \in Prefixes |-> NoPath]
    /\ import_paths = <<NoPath, NoPath>>
    /\ import_read = [data |-> 0, organizations |-> 0]

RunNext ==
    \/ Midnight
    \/ run_start
    \/ run_token_raises
    \/ run_fetch_raises
    \/ run_save_animals
    \/ run_save_orgs
    \/ run_save_with_orgs
    \/ run_import
    \/ run_import_missing

----------------------------------------------------------------------------
(* clean_animal_data (lines 116-160), clean_organization_data (lines       *)
(* 199-230) and import_to_db (lines 261-422).  Of every record the model   *)
(* keeps the key and, of an organization, one column that is copied (name),*)
(* of an animal, the five columns that are converted with int(): mixed     *)
(* (line 396) and the four attributes flags (lines 401-404).               *)

(* JSON null as the id of an animal; the ids of the API are positive. *)
NoId == 0

AttributeFlags ==
    {"spayed_neutered", "house_trained", "special_needs", "shots_current"}

(* A raw animal without the object "attributes" (or with null for it). *)
NoAttributes ==
    [present |-> FALSE, spayed_neutered |-> "null", house_trained |-> "null",
     special_needs |-> "null", shots_current |-> "null"]

(* The object "attributes" of a raw animal: absent, or holding the four    *)
(* flags, each true, false or null; here one flag varies.                  *)
RawAttributes ==
    {NoAttributes} \cup
    [present : {TRUE}, spayed_neutered : {"true"},
     house_trained : {"false", "null"}, special_needs : {"false"},
     shots_current : {"true"}]

(* Raw animals: the id is null or 1; the object "breeds" is absent (or     *)
(* null), or holds mixed = true.                                           *)
RawAnimals ==
    [id : {NoId, 1}, breeds : {"absent", "true"},
     attributes : RawAttributes]

(* Raw organizations: the id is null or "ORG1". *)
RawOrgs == [id : {Nil, "ORG1"}, name : {"a"}]

(* lines 119-120, 133 and 140-143: breeds = a.get("breeds") or {} and     *)
(* breeds.get("mixed"); the same for attributes and its four flags        *)
clean_animal(a) ==
    [id |-> a.id,
     breeds |-> [mixed |-> IF a.breeds = "absent" THEN "null" ELSE a.breeds],
     attributes |-> [f \in AttributeFlags |->
                        IF a.attributes.present THEN a.attributes[f]
                        ELSE "null"]]

(* lines 116-160 *)
clean_animal_data(animals) == [i \in 1..Len(animals) |-> clean_animal(animals[i])]

(* lines 207-229 *)
clean_organization(o) == [id |-> o.id, name |-> o.name]

(* lines 199-230 *)
clean_organization_data(orgs) ==
    [i \in 1..Len(orgs) |-> clean_organization(orgs[i])]

SeqsUpTo(S, n) == UNION {[1..k -> S] : k \in 0..n}

(* line 396: int(animal.get("breeds", {}).get("mixed", False)) raises      *)
(* TypeError on None: the key "mixed" is there, so the default is not used *)
IntRaises(v) == v = "null"

(* lines 396 and 401-404: building the tuple of values raises when any of  *)
(* the five flags is None                                                  *)
AnimalRowRaises(animal) ==
    \/ IntRaises(animal.breeds.mixed)
    \/ \E f \in AttributeFlags : IntRaises(animal.attributes[f])

(* int(True) = 1, int(False) = 0 *)
PyInt(v) == IF v = "true" THEN 1 ELSE 0

(* The row of an animal, lines 390-416 *)
AnimalRow(animal) ==
    [id |-> animal.id,
     mixed |-> PyInt(animal.breeds.mixed),
     spayed_neutered |-> PyInt(animal.attributes["spayed_neutered"]),
     house_trained |-> PyInt(animal.attributes["house_trained"]),
     special_needs |-> PyInt(animal.attributes["special_needs"]),
     shots_current |-> PyInt(animal.attributes["shots_current"])]

(* The row of an organization, lines 339-348 *)
OrgRow(org) == [id |-> org.id, name |-> org.name]

Replace(rows, id, row) ==
    [i \in 1..Len(rows) |-> IF rows[i].id = id THEN row ELSE rows[i]]

HasId(rows, id) == \E i \in 1..Len(rows) : rows[i].id = id

(* lines 325-337 on `id TEXT PRIMARY KEY`: a NULL id conflicts with no     *)
(* row, not even another NULL, so the row is inserted                      *)
UpsertOrg(rows, row) ==
    IF row.id # Nil /\ HasId(rows, row.id)
    THEN Replace(rows, row.id, row)
    ELSE Append(rows, row)

(* The rowid SQLite gives to a row inserted with a NULL INTEGER PRIMARY KEY *)
NextRowid(rows) ==
    IF rows = << >> THEN 1 ELSE 1 + Largest({rows[i].id : i \in 1..Len(rows)})

(* lines 353-388 on `id INTEGER PRIMARY KEY` *)
UpsertAnimal(rows, row) ==
    IF row.id = NoId
    THEN Append(rows, [row EXCEPT !.id = NextRowid(rows)])
    ELSE IF HasId(rows, row.id)
         THEN Replace(rows, row.id, row)
         ELSE Append(rows, row)

EmptyDb == [tables |-> FALSE, organizations |-> << >>, animals |-> << >>]

(* A database left by earlier runs. *)
OldDb == [tables |-> TRUE,
          organizations |-> <<[id |-> "ORG1", name |-> "old"]>>,
          animals |-> <<[id |-> 1, mixed |-> 0, spayed_neutered |-> 0,
                         house_trained |-> 1, special_needs |-> 0,
                         shots_current |-> 0]>>]

(* main() line 440, of this run or of a rerun on the same snapshot files *)
import_call ==
    /\ ipc \in {"idle", "done", "raised"}
    /\ nimports < MaxImports
    /\ nimports' = nimports + 1
    /\ ncommits' = 0
    /\ db0' = db
    /\ ipc' = "check"
    /\ UNCHANGED <<raw_animals, raw_orgs, files_exist, animal_data, org_data, db,
                   tx, oi, ai, db_first>>
    /\ UNCHANGED othersOfImport

(* lines 263-264: a file is missing; FileNotFoundError *)
import_missing ==
    /\ ipc = "check"
    /\ ~files_exist
    /\ ipc' = "raised"
    /\ UNCHANGED <<raw_animals, raw_orgs, files_exist, animal_data, org_data, db,
                   tx, oi, ai, nimports, ncommits, db0, db_first>>
    /\ UNCHANGED othersOfImport

(* lines 267-321: load both files, connect, executescript; the script's    *)
(* CREATE TABLE IF NOT EXISTS statements run outside any transaction       *)
import_open ==
    /\ ipc = "check"
    /\ files_exist
    /\ db' = [db EXCEPT !.tables = TRUE]
    /\ tx' = db'
    /\ oi' = 1
    /\ ai' = 1
    /\ ipc' = "rows"
    /\ UNCHANGED <<raw_animals, raw_orgs, files_exist, animal_data, org_data,
                   nimports, ncommits, db0, db_first>>
    /\ UNCHANGED othersOfImport

(* lines 324-349: one organization; the first INSERT opens the transaction *)
import_upsert_org ==
    /\ ipc = "rows"
    /\ oi <= Len(org_data)
    /\ tx' = [tx EXCEPT !.organizations = UpsertOrg(@, OrgRow(org_data[oi]))]
    /\ oi' = oi + 1
    /\ UNCHANGED <<ipc, raw_animals, raw_orgs, files_exist, animal_data, org_data,
                   db, ai, nimports, ncommits, db0, db_first>>
    /\ UNCHANGED othersOfImport

(* lines 352-416: one animal *)
import_upsert_animal ==
    /\ ipc = "rows"
    /\ oi > Len(org_data)
    /\ ai <= Len(animal_data)
    /\ ~AnimalRowRaises(animal_data[ai])
    /\ tx' = [tx EXCEPT !.animals = UpsertAnimal(@, AnimalRow(animal_data[ai]))]
    /\ ai' = ai + 1
    /\ UNCHANGED <<ipc, raw_animals, raw_orgs, files_exist, animal_data, org_data,
                   db, oi, nimports, ncommits, db0, db_first>>
    /\ UNCHANGED othersOfImport

(* A failure path that commits what was done so far. *)
import_animal_raises_committing ==
    /\ ipc = "rows"
    /\ oi > Len(org_data)
    /\ ai <= Len(animal_data)
    /\ AnimalRowRaises(animal_data[ai])
    /\ db' = tx
    /\ ipc' = "raised"
    /\ UNCHANGED <<raw_animals, raw_orgs, files_exist, animal_data, org_data,
                   tx, oi, ai, nimports, ncommits, db0, db_first>>
    /\ UNCHANGED othersOfImport

(* lines 396, 401-404: int(None) raises TypeError while the values of the  *)
(* row are built; the exception leaves import_to_db, the connection goes   *)
(* away with its transaction uncommitted, and SQLite rolls the transaction *)
(* back                                                                    *)
import_animal_raises ==
    /\ ipc = "rows"
    /\ oi > Len(org_data)
    /\ ai <= Len(animal_data)
    /\ AnimalRowRaises(animal_data[ai])
    /\ tx' = db
    /\ ipc' = "raised"
    /\ UNCHANGED <<raw_animals, raw_orgs, files_exist, animal_data, org_data,
                   db, oi, ai, nimports, ncommits, db0, db_first>>
    /\ UNCHANGED othersOfImport

(* lines 419-422: conn.commit(), conn.close() *)
import_commit ==
    /\ ipc = "rows"
    /\ oi > Len(org_data)
    /\ ai > Len(animal_data)
    /\ db' = tx
    /\ ncommits' = ncommits + 1
    /\ db_first' = IF nimports = 1 THEN db' ELSE db_first
    /\ ipc' = "done"
    /\ UNCHANGED <<raw_animals, raw_orgs, files_exist, animal_data, org_data,
                   tx, oi, ai, nimports, db0>>
    /\ UNCHANGED othersOfImport

(* main() lines 429-435 have run: the fetched records were normalized and  *)
(* written (or, with no snapshot files, there is nothing to read).         *)
ImportStart ==
    /\ ipc = "idle"
    /\ files_exist \in BOOLEAN
    /\ raw_animals \in (IF files_exist THEN SeqsUpTo(RawAnimals, MaxAnimalRows)
                                       ELSE {<< >>})
    /\ raw_orgs \in (IF files_exist THEN SeqsUpTo(RawOrgs, MaxOrgRows) ELSE {<< >>})
    /\ animal_data = clean_animal_data(raw_animals)
    /\ org_data = clean_organization_data(raw_orgs)
    /\ db \in {EmptyDb, OldDb}
    /\ tx = db
    /\ oi = 0
    /\ ai = 0
    /\ nimports = 0
    /\ ncommits = 0
    /\ db0 = db
    /\ db_first = db

ImportNext ==
    \/ import_call
    \/ import_missing
    \/ import_open
    \/ import_upsert_org
    \/ import_upsert_animal
    \/ import_animal_raises
    \/ import_commit

------------
(* The components at rest *)
FetchRest ==
    /\ fstage = "done" /\ fpc = "main"
    /\ limit = 1 /\ pages = 1 /\ page = 1 /\ attempt = 0
    /\ data = None /\ all_items = << >>
    /\ raw = << >>
    /\ reqPages = << >> /\ got = << >>
    /\ nsent = 0 /\ nsleeps = 0 /\ slept = 0
    /\ firstOK = [seen |-> FALSE, body |-> None]
    /\ lastResp = NoResponse /\ permfail = 0

TokenRest ==
    /\ tpc = "returned" /\ now = 0 /\ cache = NoFile /\ tret = 0 /\ issued = 0
    /\ posts = 0 /\ cache0 = NoFile /\ checked_at = 0 /\ issued_at = 0

LinkRest ==
    /\ lpc = "rest" /\ animals_clean = << >> /\ orgs_clean = << >>
    /\ org_lookup = [k \in {} |-> k] /\ li = 0 /\ animals_with_orgs = << >>
    /\ animals_before = << >> /\ orgs_before = << >>

RunRest ==
    /\ rpc = "rest" /\ run = 0 /\ date = 0 /\ today_str = 0
    /\ files = [f \in Prefixes \X (0..MaxDate) |-> 0]
    /\ wrote = [p \in Prefixes |-> NoPath]
    /\ import_paths = <<NoPath, NoPath>>
    /\ import_read = [data |-> 0, organizations |-> 0]

ImportRest ==
    /\ ipc = "rest" /\ raw_animals = << >> /\ raw_orgs = << >>
    /\ files_exist = FALSE /\ animal_data = << >> /\ org_data = << >>
    /\ db = EmptyDb /\ tx = EmptyDb /\ oi = 0 /\ ai = 0 /\ nimports = 0
    /\ ncommits = 0 /\ db0 = EmptyDb /\ db_first = EmptyDb

(* The fetch stages of main(), lines 429 and 433 *)
FetchInit == FetchStart /\ TokenRest /\ LinkRest /\ RunRest /\ ImportRest

FetchSpec == FetchInit /\ [][FetchNext]_vars /\ WF_vars(FetchNext)

(* get_auth_token over successive runs of the script *)
TokenInit == TokenStart /\ FetchRest /\ LinkRest /\ RunRest /\ ImportRest

TokenSpec == TokenInit /\ [][TokenNext]_vars

(* match_organizations on every pair of normalized lists, main() line 437 *)
LinkInit == LinkStart /\ FetchRest /\ TokenRest /\ RunRest /\ ImportRest

LinkSpec == LinkInit /\ [][LinkNext]_vars

(* Successive runs of main(), with the calendar moving on *)
RunInit == RunStart /\ FetchRest /\ TokenRest /\ LinkRest /\ ImportRest

RunSpec == RunInit /\ [][RunNext]_vars

(* Normalization and import_to_db, called again on the same snapshot files *)
ImportInit == ImportStart /\ FetchRest /\ TokenRest /\ LinkRest /\ RunRest

ImportSpec == ImportInit /\ [][ImportNext]_vars

----------
(* Claims about the fetch layer, checked under FetchSpec *)

(* A fetch has returned to main() and the next one has not been called. *)
FetchReturned == fpc = "main" /\ fstage # "animals"

(* The value that fetch returned. *)
FetchResult == raw

UpTo(n) == [i \in 1..n |-> i]

(* C1: in both fetches the pages are requested in the order 1, 2, 3, ...;  *)
(* the loop stops exactly at the first page that delivers fewer than limit *)
(* records, or none, or is page number `pages`; the value returned is the  *)
(* concatenation in page order of everything received up to that page.     *)
C1_PaginationStopsAndKeepsAll ==
    /\ reqPages = UpTo(Len(reqPages))
    /\ fpc \in {"for_page", "return"} => all_items = Flatten(got)
    /\ FetchReturned =>
          LET k == Len(got) IN
          /\ k >= 1 /\ k <= pages
          /\ reqPages = UpTo(k)
          /\ \A j \in 1..(k - 1) :
                Len(got[j]) >= limit /\ Len(got[j]) # 0 /\ j # pages
          /\ Len(got[k]) < limit \/ Len(got[k]) = 0 \/ k = pages
          /\ FetchResult = Flatten(got)

(* C1 witness: fetch_animals returned after a full first page and a short, *)
(* non-empty second page, with the records of both.                        *)
C1_Witness ==
    /\ FetchReturned /\ fstage = "organizations"
    /\ limit = 2 /\ Len(got) = 2
    /\ Len(got[1]) = 2 /\ Len(got[2]) = 1
    /\ Len(raw) = 3

RetryStatus(s) == s \in {429, 502, 503, 504}

InSafeGet == fpc \in {"for_attempt", "request", "except"}

(* The safety half of C2: the budget, the sleep after every retryable      *)
(* status, the value returned; the call ends by returning.                 *)
C2_Budget ==
    /\ nsent <= Retries
    /\ fpc # "raised"
    /\ fpc \in {"for_attempt", "request"} =>
          /\ nsent = attempt /\ nsleeps = nsent
          /\ attempt > 0 =>
                /\ RetryStatus(lastResp.status)
                /\ lastResp.status # 429 => slept = 5
                /\ lastResp.status = 429 =>
                      slept = (IF lastResp.retry_after = NoHeader
                               THEN 10 ELSE lastResp.retry_after.seconds)
    /\ fpc = "for_attempt" /\ attempt < Retries => ENABLED safe_get_attempt
    /\ fpc = "after_get" =>
          /\ firstOK.seen =>
                /\ data = firstOK.body
                /\ lastResp.status < 400
                /\ nsleeps = nsent - 1
          /\ ~firstOK.seen => data = None
          /\ RetryStatus(lastResp.status) => nsent = Retries /\ nsleeps = Retries

(* C2: whatever responses the server gives, safe_get ends after at most    *)
(* Retries GETs; every 429 or 502/503/504 is followed by a sleep and, while *)
(* the budget lasts, one more GET; the body of the first success response  *)
(* is returned; None is returned when the budget is used up.               *)
C2_SafeGetTerminatesWithinBudget ==
    /\ []C2_Budget
    /\ InSafeGet ~> (fpc = "after_get")

PermanentError(s) == s >= 400 /\ s < 600 /\ ~RetryStatus(s)

(* C3: a non-success status other than 429/502/503/504 on page k ends the  *)
(* safe_get call with None and no further GET; no page after k is          *)
(* requested, the fetch returns the records of pages 1..k-1, and main()    *)
(* goes on to its next stage.                                              *)
C3_PermanentErrorEndsPagination ==
    /\ PermanentError(lastResp.status) =>
          /\ fpc \in {"except", "after_get"}
          /\ fpc = "after_get" => data = None /\ ~firstOK.seen
          /\ permfail = page
    /\ permfail # 0 =>
          /\ page = permfail
          /\ reqPages = UpTo(permfail)
          /\ fpc \in {"except", "after_get", "return", "main"}
          /\ fpc \in {"return", "main"} =>
                /\ Len(got) = permfail
                /\ all_items = Flatten(SubSeq(got, 1, permfail - 1))
          /\ fpc = "main" =>
                /\ FetchResult = Flatten(SubSeq(got, 1, permfail - 1))
                /\ fstage \in {"organizations", "done"}
                /\ fstage = "organizations" => ENABLED main_call_fetch

(* C3 witness: fetch_animals got a full page 1 and a permanent error on    *)
(* page 2, returned page 1's records, and main() is about to fetch the     *)
(* organizations.                                                          *)
C3_Witness ==
    /\ fpc = "main" /\ fstage = "organizations"
    /\ permfail = 2
    /\ raw = got[1] /\ Len(raw) >= limit

----------------------------------------------------------------------------
(* Claim about the token manager, checked under TokenSpec *)

(* The cache held an unexpired credential when the running call looked. *)
CacheWasValid == cache0.exists /\ checked_at < cache0.expires_at

(* C4: with an unexpired cached credential get_auth_token returns the      *)
(* cached access_token, sends nothing and leaves the cache file alone; in  *)
(* every other state it sends exactly one POST and, on its success answer, *)
(* caches the new credential with expires_at = time of issue + expires_in  *)
(* - 10 and returns the new access_token, so that a later call made before *)
(* that expires_at is served from the cache.                               *)
C4_TokenCachedUntilExpiry ==
    /\ tpc = "post" => posts = 1 /\ ~CacheWasValid /\ cache = cache0
    /\ tpc = "returned" /\ CacheWasValid =>
          /\ posts = 0
          /\ tret = cache0.access_token
          /\ cache = cache0
    /\ tpc = "returned" /\ ~CacheWasValid =>
          /\ posts = 1
          /\ cache.exists
          /\ cache.access_token = issued /\ cache.access_token # cache0.access_token
          /\ cache.expires_at = issued_at + cache.expires_in - 10
          /\ tret = cache.access_token

(* C4 witness: a second call, made before the expires_at the first call    *)
(* stored, returned the first call's token without a POST.                 *)
C4_Witness ==
    /\ tpc = "returned"
    /\ issued = 1 /\ cache0.exists /\ cache0.access_token = 1
    /\ posts = 0 /\ tret = 1
    /\ checked_at > issued_at /\ checked_at < cache0.expires_at

----------------------------------------------------------------------------
(* Claims about the cross-linker, checked under LinkSpec *)

(* Some organization of the list passed in has this id. *)
SomeOrgHas(oid) == \E j \in 1..Len(orgs_before) : orgs_before[j].id = oid

(* The last organization of the list passed in with this id. *)
LastOrgWith(oid) ==
    orgs_before[Largest({j \in 1..Len(orgs_before) : orgs_before[j].id = oid})]

(* The returned animals are the given ones, in order, with an organization *)
(* sub-record, built from the last organization with the id, exactly on    *)
(* the animals that satisfy Linked.                                        *)
LinkedExactly(Linked(_)) ==
    /\ Len(animals_with_orgs) = Len(animals_before)
    /\ \A i \in 1..Len(animals_before) :
          LET a == animals_before[i]
              r == animals_with_orgs[i]
          IN  /\ r.id = a.id /\ r.organization_id = a.organization_id
              /\ r.has_organization <=> Linked(a.organization_id)
              /\ r.has_organization =>
                    r.organization.name = LastOrgWith(a.organization_id).name

NonNullAndKnown(oid) == oid # Nil /\ SomeOrgHas(oid)

TruthyAndKnown(oid) == oid # Nil /\ oid # "" /\ SomeOrgHas(oid)

(* C8 as stated: an animal is returned with an `organization` sub-record   *)
(* if and only if its organization_id is non-null and is the id of some    *)
(* organization; the sub-record comes from the last such organization.     *)
C8_LinkedIffNonNullAndKnown ==
    lpc = "done" => LinkedExactly(NonNullAndKnown)

(* C8 as amended: an animal is returned with an `organization` sub-record  *)
(* if and only if its organization_id is truthy (neither null nor the      *)
(* empty string) and is the id of some organization; the sub-record comes  *)
(* from the last such organization.                                        *)
C8_LinkedIffTruthyAndKnown ==
    lpc = "done" => LinkedExactly(TruthyAndKnown)

(* C8 witness: two organizations share an id and an animal with that id    *)
(* was returned with the sub-record of the second one, next to an animal   *)
(* that was returned without one.                                          *)
C8_Witness ==
    /\ lpc = "done"
    /\ Len(orgs_before) = 2 /\ orgs_before[1].id = orgs_before[2].id
    /\ Len(animals_with_orgs) = 2
    /\ animals_with_orgs[1].has_organization
    /\ animals_with_orgs[1].organization.name = orgs_before[2].name
    /\ ~animals_with_orgs[2].has_organization

(* C9: match_organizations leaves the records of both lists it was given   *)
(* as they were; the enriched animals are a new collection.                *)
C9_InputsNotMutated ==
    lpc = "done" =>
        /\ animals_clean = animals_before
        /\ orgs_clean = orgs_before

----------------------------------------------------------------------------
(* Claim about the paths of the import, checked under RunSpec *)

(* C5: the import of a run reads exactly the two normalized snapshot files *)
(* that save_to_file wrote earlier in that run, also when the date changes *)
(* during the run: never a file of an earlier run, never a missing file.   *)
C5_ImportReadsThisRunsSnapshots ==
    /\ rpc \in {"done", "failed"} =>
          import_paths = <<wrote["data"], wrote["organizations"]>>
    /\ rpc # "failed"
    /\ rpc = "done" =>
          import_read = [data |-> run, organizations |-> run]

----------------------------------------------------------------------------
(* Claims about the store importer, checked under ImportSpec *)

(* The rows of a database content. *)
Rows(d) == <<d.organizations, d.animals>>

(* C6: import_to_db is all-or-nothing: organizations are upserted before   *)
(* any animal row, there is one commit, after the last animal row, and     *)
(* when an exception leaves the call (a missing file, a row that cannot be *)
(* built) the committed rows are those of before the call.                 *)
C6_ImportAllOrNothing ==
    /\ ipc \in {"check", "rows", "raised"} =>
          Rows(db) = Rows(db0) /\ ncommits = 0
    /\ ipc = "rows" /\ ai > 1 => oi > Len(org_data)
    /\ ipc = "done" =>
          /\ ncommits = 1
          /\ oi > Len(org_data) /\ ai > Len(animal_data)
          /\ Rows(db) = Rows(tx)

(* C6 witness: into an empty store, an organization row and a first animal *)
(* row were written, the second animal raised, and the committed store     *)
(* holds neither row.                                                      *)
C6_Witness ==
    /\ ipc = "raised" /\ files_exist
    /\ Len(org_data) = 1 /\ oi = 2
    /\ Len(animal_data) = 2 /\ ai = 2
    /\ db0 = [EmptyDb EXCEPT !.tables = TRUE]
    /\ db.organizations = << >> /\ db.animals = << >>

NoDuplicates(rows) ==
    \A i, j \in 1..Len(rows) : i # j => rows[i] # rows[j]

(* C7: for every initial store and every pair of snapshot files the        *)
(* normalizer can produce, a second import_to_db of the same files leaves  *)
(* the store as the first one left it, with no duplicate rows.             *)
C7_ImportTwiceEqualsOnce ==
    ipc = "done" /\ nimports = 2 =>
        /\ Rows(db) = Rows(db_first)
        /\ NoDuplicates(db.organizations)
        /\ NoDuplicates(db.animals)

(* C10: import_to_db raises on no record the normalizers can output: a run *)
(* whose snapshot files were written reaches the commit.                   *)
C10_NormalizedRecordsAccepted ==
    files_exist => ipc # "raised"

====
